---- MODULE Spec2Model ----
(***************************************************************************)
(* Three-strategy trading bookkeeping (wooytek/3strategie).                *)
(*                                                                         *)
(* Two deployments are modelled side by side:                              *)
(*   "EURUSD"  Kody/P_EURUSD/2_eurusd-analyzer.py  (PostgreSQL tables)     *)
(*   "USDJPY"  Kody/P_USDJPY/3_analyze-usdjpy-lambda.py (S3 objects)       *)
(*                                                                         *)
(* Numbers.  Prices are integers counted in price units, one unit being    *)
(* 1e-7 for EURUSD and 1e-5 for USDJPY, so that in both deployments one    *)
(* pip (0.0001 resp. 0.01) is PipUnits = 1000 units.  EPS = 1e-5 is 100    *)
(* units for EURUSD and 1 unit for USDJPY; round(x, 6) resp. round(x, 3)   *)
(* rounds to a multiple of 10 resp. 100 units.  result_pips is kept in     *)
(* tenths of a pip (300 stands for 30.0).  Arithmetic is exact: binary     *)
(* floating point noise is not modelled.                                   *)
(* Timestamps are the ordinal number of the sample (1, 2, 3, ...).         *)
(***************************************************************************)
EXTENDS Integers, Sequences, FiniteSets, TLC

VARIABLES
    dep,      \* which deployment this behaviour is about
    rates,    \* EURUSD: table eurusd_rates, oldest row first
    ticks,    \* USDJPY: tick objects ticks/<ts>.json, indexed by key
    cache,    \* USDJPY: state/cache.json, list of tick keys, newest first
    state,    \* USDJPY: state/<name>.json per strategy: <<>> is {} , else <<pos>>
    trd,      \* USDJPY: trades/<name>/<uuid>.json per strategy, in creation order
    tbl,      \* EURUSD: trades table per strategy, rows in trade_id order
    inv,      \* analyzer invocations (locals of lambda_handler), per slot
    prev,     \* the analyzer run completed just before the last one, if no sample came in between
    nfetch,   \* number of samples fetched since the initial state
    ever,     \* per strategy, every position that was ever written to the store
    fet,      \* fetch invocations (locals of the fetch lambda_handler), per slot
    dash,     \* USDJPY dashboard container: _last_ts, what it has written, its last answer
    sav       \* USDJPY save container: ANALYZE_FN, the last event, its thread and answer

vars == <<dep, rates, ticks, cache, state, trd, tbl, inv, prev, nfetch, ever, fet, dash, sav>>

----------------------------------------------------------------------------
(* Program constants *)

SL1 == 20
TP1 == 30
SL2 == 15
TP2 == 25
SL3 == 12
TP3 == 24
RSI_LEN == 14
SMA_LEN == 50
Z_W == 50
WIN_USDJPY == 100
WIN_EURUSD == 300
PipUnits == 1000

\* Z_TH = 2.5 as the fraction Z_TH_NUM / Z_TH_DEN
Z_TH_NUM == 5
Z_TH_DEN == 2

Deployments == {"EURUSD", "USDJPY"}
Strategies == <<"classic", "anomaly", "fractal">>
StrategyNames == {"classic", "anomaly", "fractal"}

\* EPS = 1e-5 in price units
EpsUnits_Wide(d) == 25 * PipUnits

EpsUnits(d) == IF d = "EURUSD" THEN 100 ELSE 1

\* round(x, 6) for EURUSD and round(x, 3) for USDJPY: the rounding step in price units
RoundStep(d) == IF d = "EURUSD" THEN 10 ELSE 100

SL(s) == CASE s = "classic" -> SL1 [] s = "anomaly" -> SL2 [] OTHER -> SL3
TP(s) == CASE s = "classic" -> TP1 [] s = "anomaly" -> TP2 [] OTHER -> TP3

NULL == 0
None == <<>>

----------------------------------------------------------------------------
(* Arithmetic helpers *)

Max(a, b) == IF a >= b THEN a ELSE b
Min(a, b) == IF a <= b THEN a ELSE b
Abs(a) == IF a >= 0 THEN a ELSE -a

\* Python round(): nearest integer multiple, ties to the even one
RoundDiv(x, step) ==
    LET q == x \div step
        r == x % step
    IN  IF 2 * r < step THEN q
        ELSE IF 2 * r > step THEN q + 1
        ELSE IF q % 2 = 0 THEN q ELSE q + 1

RoundTo(x, step) == step * RoundDiv(x, step)

RECURSIVE SumSeq(_)
SumSeq(s) == IF Len(s) = 0 THEN 0 ELSE Head(s) + SumSeq(Tail(s))

\* vals[-n:] of Python
LastN(s, n) == IF Len(s) <= n THEN s ELSE SubSeq(s, Len(s) - n + 1, Len(s))
FirstN_Untrimmed(s, n) == s

\* vals[:n] of Python
FirstN(s, n) == IF Len(s) <= n THEN s ELSE SubSeq(s, 1, n)
Reversed(s) == [i \in 1..Len(s) |-> s[Len(s) + 1 - i]]
MaxOf(s) == CHOOSE x \in {s[i] : i \in 1..Len(s)} : \A i \in 1..Len(s) : s[i] <= x
MinOf(s) == CHOOSE x \in {s[i] : i \in 1..Len(s)} : \A i \in 1..Len(s) : s[i] >= x

\* the deltas vals[i] - vals[i-1] over the last n steps
Deltas(vals, n) == [i \in 1..n |-> vals[Len(vals) - n + i] - vals[Len(vals) - n + i - 1]]

----------------------------------------------------------------------------
(* Indicators.  An RSI value is the fraction <<num, den>>, den > 0.        *)

RsiLt(r, c) == r[1] < c * r[2]
RsiGt(r, c) == r[1] > c * r[2]

rsi_NeedsMore(vals, n) ==
    IF Len(vals) < n + 2 THEN None
    ELSE LET d == Deltas(vals, n)
             gains == SumSeq([i \in 1..n |-> Max(d[i], 0)])
             losses == SumSeq([i \in 1..n |-> Max(-d[i], 0)])
         IN  IF losses = 0 THEN <<100, 1>>
             ELSE <<100 * gains, gains + losses>>

\* USDJPY rsi(vals, n)
rsi(vals, n) ==
    IF Len(vals) < n + 1 THEN None
    ELSE LET d == Deltas(vals, n)
             gains == SumSeq([i \in 1..n |-> Max(d[i], 0)])
             losses == SumSeq([i \in 1..n |-> Max(-d[i], 0)])
         IN  IF losses = 0 THEN <<100, 1>>
             ELSE <<100 * gains, gains + losses>>

\* EURUSD safe_rsi(vals, n)
safe_rsi(vals, n) ==
    IF Len(vals) < n + 1 THEN None
    ELSE LET relevant_vals == IF Len(vals) > n + 1 THEN LastN(vals, n + 1) ELSE vals
             m == Len(relevant_vals) - 1
             d == Deltas(relevant_vals, m)
             gains == SumSeq([i \in 1..m |-> IF d[i] > 0 THEN d[i] ELSE 0])
             losses == SumSeq([i \in 1..m |-> IF d[i] > 0 THEN 0 ELSE Abs(d[i])])
         IN  IF Len(relevant_vals) < 2 \/ m < n THEN None
             ELSE IF losses = 0 THEN (IF gains > 0 THEN <<100, 1>> ELSE <<50, 1>>)
             ELSE <<100 * gains, gains + losses>>

(* Z-score.  math.log(a/b) is transcendental; a log-return is modelled by  *)
(* its first-order term (a - b), counted in whole pips for the mean and    *)
(* the deviation (the common factor 1/b cancels in the quotient), and      *)
(* exactly for the test std == 0 (all returns equal).  A z value is the    *)
(* record [D, Q, m] with z = (D/m) / sqrt(Q / (m (m-1))) where             *)
(* D = m*ret - sum(x) and Q = m*sum(x^2) - sum(x)^2 over the m returns x   *)
(* the statistics are taken over.                                          *)
ZVal(ret, xs) ==
    LET m == Len(xs)
        S == SumSeq(xs)
        SS == SumSeq([i \in 1..m |-> xs[i] * xs[i]])
    IN  [D |-> m * ret - S, Q |-> m * SS - S * S, m |-> m]

ZeroZ == [D |-> 0, Q |-> 1, m |-> 2]

\* z >= Z_TH and z <= -Z_TH
ZGeTh(z) == z.D > 0 /\ (Z_TH_DEN * Z_TH_DEN * (z.m - 1) * z.D * z.D) \div (Z_TH_NUM * Z_TH_NUM * z.m) >= z.Q
ZLeNegTh(z) == z.D < 0 /\ (Z_TH_DEN * Z_TH_DEN * (z.m - 1) * z.D * z.D) \div (Z_TH_NUM * Z_TH_NUM * z.m) >= z.Q

AllEqual(s) == \A i \in 1..Len(s) : s[i] = s[1]
InPips(s) == [i \in 1..Len(s) |-> s[i] \div PipUnits]

z_score_Unguarded(vals, w) ==
    IF Len(vals) < w + 1 THEN None
    ELSE LET rets == Deltas(vals, w)
             stat == SubSeq(rets, 1, w - 1)
         IN  ZVal(rets[w] \div PipUnits, InPips(stat))

\* USDJPY z_score(vals, w): statistics over rets[:-1]
z_score(vals, w) ==
    IF Len(vals) < w + 1 THEN None
    ELSE LET rets == Deltas(vals, w)
             stat == SubSeq(rets, 1, w - 1)
         IN  IF AllEqual(stat) THEN None
             ELSE ZVal(rets[w] \div PipUnits, InPips(stat))

\* EURUSD z computed inline in lambda_handler, statistics over all 50 returns
z_eurusd(prices) ==
    LET log_returns == Deltas(prices, Z_W)
    IN  IF AllEqual(log_returns) THEN ZeroZ
        ELSE ZVal(log_returns[Z_W] \div PipUnits, InPips(log_returns))

----------------------------------------------------------------------------
(* Positions and trades *)

\* round(price -/+ 0.01*sl, 3) resp. round(price -/+ 0.0001*sl, 6), and the same for tp
sl_px(d, direction, price, sl) ==
    IF direction = "LONG" THEN RoundTo(price - PipUnits * sl, RoundStep(d))
    ELSE RoundTo(price + PipUnits * sl, RoundStep(d))

tp_px_Unrounded(d, direction, price, tp) ==
    IF direction = "LONG" THEN price + PipUnits * tp ELSE price - PipUnits * tp

tp_px(d, direction, price, tp) ==
    IF direction = "LONG" THEN RoundTo(price + PipUnits * tp, RoundStep(d))
    ELSE RoundTo(price - PipUnits * tp, RoundStep(d))

\* direction = "LONG" if open_long else "SHORT"
Direction(long_c, short_c) == IF long_c THEN "LONG" ELSE "SHORT"

\* the position written on FLAT -> OPEN
NewPos(d, s, long_c, short_c, price, time) ==
    LET direction == Direction(long_c, short_c)
    IN  [open_time |-> time, open_price |-> price, direction |-> direction,
         sl_price |-> sl_px(d, direction, price, SL(s)),
         tp_price |-> tp_px(d, direction, price, TP(s))]

hit_tp_NoEps(d, pos, price) ==
    IF pos.direction = "LONG" THEN price >= pos.tp_price
    ELSE price <= pos.tp_price

hit_tp(d, pos, price) ==
    IF pos.direction = "LONG" THEN price >= pos.tp_price - EpsUnits(d)
    ELSE price <= pos.tp_price + EpsUnits(d)

hit_sl_AtEntry(d, pos, price) ==
    IF pos.direction = "LONG" THEN price <= pos.open_price + EpsUnits(d)
    ELSE price >= pos.open_price - EpsUnits(d)

hit_sl(d, pos, price) ==
    IF pos.direction = "LONG" THEN price <= pos.sl_price + EpsUnits(d)
    ELSE price >= pos.sl_price - EpsUnits(d)

result_pips_FromPrice(d, pos, price) ==
    LET pnl == price - pos.open_price
        signed == IF pos.direction = "LONG" THEN pnl ELSE -pnl
    IN  RoundDiv(signed, PipUnits \div 10)

result_pips_SlFirst(d, pos, price) ==
    LET level == IF hit_sl(d, pos, price) THEN pos.sl_price ELSE pos.tp_price
        pnl == level - pos.open_price
        signed == IF pos.direction = "LONG" THEN pnl ELSE -pnl
    IN  RoundDiv(signed, PipUnits \div 10)

\* result_pips in tenths of a pip: round(pnl * 100, 1) resp. round(pnl, 1) with pnl scaled by +-10000
result_pips(d, pos, price) ==
    LET level == IF hit_tp(d, pos, price) THEN pos.tp_price ELSE pos.sl_price
        pnl == level - pos.open_price
        signed == IF pos.direction = "LONG" THEN pnl ELSE -pnl
    IN  RoundDiv(signed, PipUnits \div 10)

\* USDJPY: trade = {**pos, close_time, close_price, result_pips}
Trade(d, pos, price, time) ==
    [open_time |-> pos.open_time, open_price |-> pos.open_price, direction |-> pos.direction,
     sl_price |-> pos.sl_price, tp_price |-> pos.tp_price,
     close_time |-> time, close_price |-> price, result_pips |-> result_pips(d, pos, price)]

\* EURUSD: a row of a trades table; close_time IS NULL while the trade is open
Row(id, pos) ==
    [trade_id |-> id, open_time |-> pos.open_time, open_price |-> pos.open_price,
     direction |-> pos.direction, sl_price |-> pos.sl_price, tp_price |-> pos.tp_price,
     close_time |-> NULL, close_price |-> NULL, result_pips |-> NULL]

\* SELECT ... FROM table WHERE close_time IS NULL
OpenRows(t) == SelectSeq(t, LAMBDA r : r.close_time = NULL)

\* SELECT 1 FROM table WHERE close_time IS NULL LIMIT 1; if cur.fetchone()
HasOpen_NoCheck(t) == FALSE
HasOpen(t) == OpenRows(t) # <<>>

\* if pos: (an empty dict is false)
Truthy_Never(pos) == FALSE
Truthy(pos) == pos # <<>>

UpdateClose_AllRows(d, t, r, price, time) ==
    [j \in 1..Len(t) |->
        [t[j] EXCEPT !.close_time = time, !.close_price = price,
                     !.result_pips = result_pips(d, r, price)]]

\* UPDATE table SET close_time, close_price, result_pips WHERE trade_id = r.trade_id
UpdateClose(d, t, r, price, time) ==
    [j \in 1..Len(t) |->
        IF t[j].trade_id = r.trade_id
        THEN [t[j] EXCEPT !.close_time = time, !.close_price = price,
                          !.result_pips = result_pips(d, r, price)]
        ELSE t[j]]

----------------------------------------------------------------------------
(* One analyzer invocation: the locals of lambda_handler.                  *)
(*   pc      where the invocation stands; every store call is one step     *)
(*   k       index in Strategies of the strategy being evaluated           *)
(*   sig     per strategy: is the strategy function called (run), and the  *)
(*           two entry predicates handed to it                             *)
(*   todo    EURUSD: the open trades of the SELECT still to be UPDATEd     *)
(*   pos     USDJPY: the position read from state/<name>.json              *)
(*   obs     per strategy, what this invocation read and wrote             *)
(*   order   the strategies in the order in which they were called         *)

NoSig == [s \in StrategyNames |-> [run |-> FALSE, long_c |-> FALSE, short_c |-> FALSE]]
NoObs == [s \in StrategyNames |->
            [called |-> FALSE, pre |-> <<>>, closed |-> <<>>, opened |-> <<>>, at_open |-> <<>>]]

Idle == [pc |-> "idle", k |-> 0, price |-> 0, time |-> 0, raw_key |-> 0, status |-> 0,
         sig |-> NoSig, todo |-> <<>>, pos |-> <<>>, obs |-> NoObs, order |-> <<>>]

NoKey == 0

\* the fetch invocations that may overlap
FProcs == {1, 2}

(***************************************************************************)
(* A fetch invocation:                                                     *)
(*   pc         "idle", "get_cache", "put_cache", "done", "failed"         *)
(*   ssm        EURUSD: how get_parameter ended                            *)
(*   missing    EURUSD: the database variables that are not set            *)
(*   api        the answer of the rates API, once the request was made     *)
(*   key        USDJPY: key of the tick object written                     *)
(*   cache      USDJPY: the copy of cache.json the invocation has read     *)
(*   status     statusCode returned                                        *)
(*   requested  the request to the rates API was made                      *)
(*   inserted   the sample was written (INSERT, or put_object of the tick) *)
(***************************************************************************)
IdleFetch == [pc |-> "idle", ssm |-> "ok", missing |-> {}, api |-> [status |-> 0, rate |-> NULL], key |-> NoKey,
              cache |-> <<>>, status |-> 0, requested |-> FALSE, inserted |-> FALSE]

NoFetch == [q \in FProcs |-> IdleFetch]

(***************************************************************************)
(* The USDJPY dashboard container.                                         *)
(*   last_ts    the module global _last_ts (NULL is None)                  *)
(*   latest     latest_ts of the last invocation                           *)
(*   status     statusCode of the last invocation; 0: it raised            *)
(*   written    newest tick of the last dashboard this container wrote     *)
(*              completely (both put_object calls returned)                *)
(*   main, chart  newest tick shown by index.html and by the chart page    *)
(***************************************************************************)
NoDash == [last_ts |-> NULL, latest |-> NULL, status |-> 0, written |-> NULL,
           main |-> NULL, chart |-> NULL]

\* ticks the dashboard needs
DASH_TICKS == 15

\* dashboard lambda_handler; tk are the tick objects, newest last; outcome is
\* how the calls after the 15-tick test end: all return ("ok"), load_json or
\* list_latest raises before the first put_object, the second put_object raises
dashboard_handler(d, tk, outcome) ==
    IF Len(tk) = 0 THEN [d EXCEPT !.status = 404, !.latest = NULL]
    ELSE LET latest_ts == tk[Len(tk)].timestamp
             d1 == [d EXCEPT !.latest = latest_ts]
             d2 == [d1 EXCEPT !.last_ts = latest_ts]
         IN  IF d.last_ts = latest_ts THEN [d1 EXCEPT !.status = 204]
             ELSE IF Len(tk) < DASH_TICKS THEN [d2 EXCEPT !.status = 500]
             ELSE IF outcome = "raise_before_put" THEN [d2 EXCEPT !.status = 0]
             ELSE IF outcome = "raise_second_put"
                  THEN [d2 EXCEPT !.status = 0, !.main = latest_ts]
             ELSE [d2 EXCEPT !.status = 200, !.main = latest_ts, !.chart = latest_ts,
                             !.written = latest_ts]

(***************************************************************************)
(* The USDJPY save container.                                              *)
(*   ANALYZE_FN  the environment variable ANALYZE_LAMBDA is set            *)
(*   event       the event of the last invocation                          *)
(*   status      statusCode of the last invocation (0: none yet)           *)
(*   thread      the thread running async_invoke: none, started, done      *)
(*   payload     the payload handed to the thread                          *)
(*   invoked     payloads of the analyzer invocations issued for the event *)
(***************************************************************************)
NoSave == [ANALYZE_FN |-> TRUE, event |-> [Records |-> <<>>], status |-> 0, thread |-> "none",
           payload |-> [raw_key |-> NoKey], invoked |-> <<>>]

\* event['Records'][0]['s3']['object']['key'] can be read
WellFormed(event) == Len(event.Records) > 0 /\ event.Records[1].key # NoKey

\* save lambda_handler
save_handler(sv, event) ==
    IF WellFormed(event)
    THEN [sv EXCEPT !.event = event, !.status = 202, !.thread = "started",
                    !.payload = [raw_key |-> event.Records[1].key], !.invoked = <<>>]
    ELSE [sv EXCEPT !.event = event, !.status = 500, !.thread = "none",
                    !.payload = [raw_key |-> NoKey], !.invoked = <<>>]

\* async_invoke in its thread; accepted: lambda_cli.invoke returned, else it
\* raised and the error was logged. Without a function name it always raises.
async_invoke(sv, accepted) ==
    [sv EXCEPT !.thread = "done",
               !.invoked = IF sv.ANALYZE_FN /\ accepted THEN Append(@, sv.payload) ELSE @]

FirstPc(d) == IF d = "EURUSD" THEN "select" ELSE "read"

Finish_AlwaysOk(i, status) ==
    [i EXCEPT !.pc = "done", !.k = 0, !.status = 200, !.todo = <<>>, !.pos = <<>>]

Finish(i, status) ==
    [i EXCEPT !.pc = "done", !.k = 0, !.status = status, !.todo = <<>>, !.pos = <<>>]

Advance_Last(d, i) ==
    LET nxt == {j \in (i.k + 1)..Len(Strategies) : i.sig[Strategies[j]].run}
    IN  IF nxt = {} THEN Finish(i, 200)
        ELSE [i EXCEPT !.pc = FirstPc(d), !.todo = <<>>, !.pos = <<>>,
                       !.k = CHOOSE j \in nxt : \A j2 \in nxt : j >= j2]

\* go on with the next strategy that is called, or return
Advance(d, i) ==
    LET nxt == {j \in (i.k + 1)..Len(Strategies) : i.sig[Strategies[j]].run}
    IN  IF nxt = {} THEN Finish(i, 200)
        ELSE [i EXCEPT !.pc = FirstPc(d), !.todo = <<>>, !.pos = <<>>,
                       !.k = CHOOSE j \in nxt : \A j2 \in nxt : j <= j2]

\* fractal flags of the EURUSD analyzer
is_high_eurusd(prices) ==
    LET n == Len(prices)
    IN  /\ prices[n - 2] = MaxOf(LastN(prices, 5))
        /\ prices[n - 2] > prices[n - 3]
        /\ prices[n - 2] > prices[n - 1]

is_low_eurusd(prices) ==
    LET n == Len(prices)
    IN  /\ prices[n - 2] = MinOf(LastN(prices, 5))
        /\ prices[n - 2] < prices[n - 3]
        /\ prices[n - 2] < prices[n - 1]

\* fractal flags of the USDJPY analyzer
is_hi_usdjpy(prices) == prices[Len(prices) - 2] = MaxOf(LastN(prices, 5))
is_lo_usdjpy(prices) == prices[Len(prices) - 2] = MinOf(LastN(prices, 5))

BelowSma_Ignored(price, prices) == TRUE

\* price > sma50 and price < sma50, sma50 = fmean(prices[-SMA_LEN:])
AboveSma(price, prices) == SMA_LEN * price > SumSeq(LastN(prices, SMA_LEN))
BelowSma(price, prices) == SMA_LEN * price < SumSeq(LastN(prices, SMA_LEN))

\* EURUSD lambda_handler: which strategies are called, with which open_cond
SigEURUSD(prices, p_now) ==
    LET rsi14 == safe_rsi(prices, RSI_LEN)
        z == z_eurusd(prices)
    IN  [s \in StrategyNames |->
          CASE s = "classic" ->
                 [run |-> TRUE, long_c |-> RsiLt(rsi14, 30), short_c |-> RsiGt(rsi14, 70)]
            [] s = "anomaly" ->
                 IF Len(prices) >= 51
                 THEN [run |-> TRUE,
                       long_c |-> ZLeNegTh(z) /\ RsiLt(rsi14, 40),
                       short_c |-> ZGeTh(z) /\ RsiGt(rsi14, 60)]
                 ELSE NoSig[s]
            [] OTHER ->
                 IF Len(prices) >= SMA_LEN /\ Len(prices) >= 5
                 THEN [run |-> TRUE,
                       long_c |-> is_low_eurusd(prices) /\ AboveSma(p_now, prices),
                       short_c |-> is_high_eurusd(prices) /\ BelowSma(p_now, prices)]
                 ELSE NoSig[s]]

\* USDJPY lambda_handler: which strategies are called, with which open_long / open_short
SigUSDJPY(prices, price) ==
    LET rsi_val == rsi(prices, RSI_LEN)
        z == z_score(prices, Z_W)
    IN  [s \in StrategyNames |->
          CASE s = "classic" ->
                 [run |-> TRUE,
                  long_c |-> rsi_val # None /\ RsiLt(rsi_val, 30),
                  short_c |-> rsi_val # None /\ RsiGt(rsi_val, 70)]
            [] s = "anomaly" ->
                 [run |-> TRUE,
                  long_c |-> z # None /\ ZLeNegTh(z),
                  short_c |-> z # None /\ ZGeTh(z)]
            [] OTHER ->
                 IF Len(prices) >= SMA_LEN + 5
                 THEN [run |-> TRUE,
                       long_c |-> is_lo_usdjpy(prices) /\ AboveSma(price, prices),
                       short_c |-> is_hi_usdjpy(prices) /\ BelowSma(price, prices)]
                 ELSE NoSig[s]]

RatesOf(rows) == [j \in 1..Len(rows) |-> rows[j].rate]

\* EURUSD: the rows of SELECT timestamp, rate ... ORDER BY timestamp DESC LIMIT 300, reversed
WindowEURUSD(rt) == LastN(rt, WIN_EURUSD)

WindowUSDJPY_Unreversed(tk, ch) ==
    LET keys == FirstN(ch, WIN_USDJPY)
    IN  [j \in 1..Len(keys) |-> tk[keys[j]].rate]

\* USDJPY: prices = [s3_json(k)["rate"] for k in reversed(cache[:100])]
WindowUSDJPY(tk, ch) ==
    LET keys == Reversed(FirstN(ch, WIN_USDJPY))
    IN  [j \in 1..Len(keys) |-> tk[keys[j]].rate]

\* EURUSD lambda_handler up to the first call of handle_strategy
BeginEURUSD(rt) ==
    LET rows == WindowEURUSD(rt)
        prices == RatesOf(rows)
        i0 == [Idle EXCEPT !.pc = "begin"]
    IN  IF Len(rows) = 0 THEN Finish(i0, 500)
        ELSE LET i1 == [i0 EXCEPT !.price = prices[Len(prices)],
                                  !.time = rows[Len(rows)].timestamp]
             IN  IF safe_rsi(prices, RSI_LEN) = None THEN Finish(i1, 200)
                 ELSE Advance("EURUSD", [i1 EXCEPT !.sig = SigEURUSD(prices, prices[Len(prices)])])

\* USDJPY lambda_handler up to the first call of strategy
BeginUSDJPY(tk, ch, raw_key) ==
    LET \* if not raw_key: raw_key = cache[0]
        key == IF raw_key = NoKey /\ Len(ch) > 0 THEN ch[1] ELSE raw_key
        i0 == [Idle EXCEPT !.pc = "begin", !.raw_key = key]
    IN  IF raw_key = NoKey /\ Len(ch) = 0 THEN Finish(i0, 404)
        ELSE IF key \notin DOMAIN tk THEN Finish(i0, 404)
        ELSE LET prices == WindowUSDJPY(tk, ch)
                 i1 == [i0 EXCEPT !.price = tk[key].rate, !.time = tk[key].timestamp]
             IN  IF Len(prices) < 2 THEN Finish(i1, 200)
                 ELSE Advance("USDJPY", [i1 EXCEPT !.sig = SigUSDJPY(prices, tk[key].rate)])

----------------------------------------------------------------------------
(* The strategy functions, one store call per step.  A step maps the       *)
(* invocation i and the store st = [state, trd, tbl] to the next pair.     *)

Obs(i, s, field, v) == [i EXCEPT !.obs[s][field] = v]

\* the strategy function is entered for strategy s
Called(i, s) == [i EXCEPT !.obs[s]["called"] = TRUE, !.order = Append(@, s)]

StepUSDJPY_ClearFirst(i, st) ==
    LET s == Strategies[i.k]
        sg == i.sig[s]
    IN  CASE i.pc = "read" ->
               LET pos == st.state[s]
                   i1 == Obs(Called(i, s), s, "pre", pos)
               IN  IF Truthy(pos)
                   THEN IF hit_tp("USDJPY", pos[1], i.price) \/ hit_sl("USDJPY", pos[1], i.price)
                        THEN [inv |-> [i1 EXCEPT !.pc = "put_clear", !.pos = pos], st |-> st]
                        ELSE [inv |-> Advance("USDJPY", i1), st |-> st]
                   ELSE IF ~(sg.long_c \/ sg.short_c)
                        THEN [inv |-> Advance("USDJPY", i1), st |-> st]
                        ELSE [inv |-> [i1 EXCEPT !.pc = "put_open"], st |-> st]
          [] i.pc = "put_clear" ->
               [inv |-> [i EXCEPT !.pc = "put_trade"],
                st |-> [st EXCEPT !.state[s] = <<>>]]
          [] i.pc = "put_trade" ->
               [inv |-> Advance("USDJPY", Obs(i, s, "closed", Append(i.obs[s].closed, i.pos[1]))),
                st |-> [st EXCEPT !.trd[s] = Append(@, Trade("USDJPY", i.pos[1], i.price, i.time))]]
          [] i.pc = "put_open" ->
               LET np == NewPos("USDJPY", s, sg.long_c, sg.short_c, i.price, i.time)
               IN  [inv |-> Advance("USDJPY", Obs(Obs(i, s, "opened", <<np>>), s, "at_open", st.state[s])),
                    st |-> [st EXCEPT !.state[s] = <<np>>]]

\* USDJPY strategy(name, sl, tp, open_long, open_short)
StepUSDJPY(i, st) ==
    LET s == Strategies[i.k]
        sg == i.sig[s]
    IN  CASE i.pc = "read" ->
               \* pos = s3_json(state_key, default={})
               LET pos == st.state[s]
                   i1 == Obs(Called(i, s), s, "pre", pos)
               IN  IF Truthy(pos)
                   THEN IF hit_tp("USDJPY", pos[1], i.price) \/ hit_sl("USDJPY", pos[1], i.price)
                        THEN [inv |-> [i1 EXCEPT !.pc = "put_trade", !.pos = pos], st |-> st]
                        ELSE [inv |-> Advance("USDJPY", i1), st |-> st]
                   ELSE IF ~(sg.long_c \/ sg.short_c)
                        THEN [inv |-> Advance("USDJPY", i1), st |-> st]
                        ELSE [inv |-> [i1 EXCEPT !.pc = "put_open"], st |-> st]
          [] i.pc = "put_trade" ->
               \* put_json(trades/<name>/<uuid>.json, trade)
               [inv |-> [Obs(i, s, "closed", Append(i.obs[s].closed, i.pos[1])) EXCEPT !.pc = "put_clear"],
                st |-> [st EXCEPT !.trd[s] = Append(@, Trade("USDJPY", i.pos[1], i.price, i.time))]]
          [] i.pc = "put_clear" ->
               \* put_json(state_key, {})
               [inv |-> Advance("USDJPY", i),
                st |-> [st EXCEPT !.state[s] = <<>>]]
          [] i.pc = "put_open" ->
               \* put_json(state_key, {open_time, open_price, direction, sl_price, tp_price})
               LET np == NewPos("USDJPY", s, sg.long_c, sg.short_c, i.price, i.time)
               IN  [inv |-> Advance("USDJPY", Obs(Obs(i, s, "opened", <<np>>), s, "at_open", st.state[s])),
                    st |-> [st EXCEPT !.state[s] = <<np>>]]

\* EURUSD handle_strategy(cur, table, open_cond, sl, tp, price, time, eps, ...)
StepEURUSD(i, st) ==
    LET s == Strategies[i.k]
        sg == i.sig[s]
    IN  CASE i.pc = "select" ->
               \* SELECT trade_id, direction, sl_price, tp_price, open_price WHERE close_time IS NULL
               LET open_trades == OpenRows(st.tbl[s])
                   hits == SelectSeq(open_trades,
                               LAMBDA r : hit_tp("EURUSD", r, i.price) \/ hit_sl("EURUSD", r, i.price))
                   i1 == Obs(Called(i, s), s, "pre", open_trades)
               IN  [inv |-> [i1 EXCEPT !.todo = hits,
                                       !.pc = IF hits = <<>> THEN "recheck" ELSE "update"],
                    st |-> st]
          [] i.pc = "update" ->
               \* UPDATE table SET close_time, close_price, result_pips WHERE trade_id = ...
               LET r == Head(i.todo)
                   i1 == Obs(i, s, "closed", Append(i.obs[s].closed, r))
               IN  [inv |-> [i1 EXCEPT !.todo = Tail(i.todo),
                                       !.pc = IF Tail(i.todo) = <<>> THEN "recheck" ELSE "update"],
                    st |-> [st EXCEPT !.tbl[s] = UpdateClose("EURUSD", @, r, i.price, i.time)]]
          [] i.pc = "recheck" ->
               \* SELECT 1 FROM table WHERE close_time IS NULL LIMIT 1
               IF HasOpen(st.tbl[s])
               THEN [inv |-> Advance("EURUSD", i), st |-> st]
               ELSE IF ~(sg.long_c \/ sg.short_c)
                    THEN [inv |-> Advance("EURUSD", i), st |-> st]
                    ELSE [inv |-> [i EXCEPT !.pc = "insert"], st |-> st]
          [] i.pc = "insert" ->
               \* INSERT INTO table(open_time, open_price, direction, sl_price, tp_price)
               LET np == Row(Len(st.tbl[s]) + 1,
                             NewPos("EURUSD", s, sg.long_c, sg.short_c, i.price, i.time))
               IN  [inv |-> Advance("EURUSD", Obs(Obs(i, s, "opened", <<np>>), s, "at_open", OpenRows(st.tbl[s]))),
                    st |-> [st EXCEPT !.tbl[s] = Append(@, np)]]

Step_SharedKey(d, i, st) ==
    LET n == IF d = "EURUSD" THEN StepEURUSD(i, st) ELSE StepUSDJPY(i, st)
    IN  [inv |-> n.inv,
         st |-> [n.st EXCEPT !.state = [s \in StrategyNames |-> n.st.state[Strategies[i.k]]],
                             !.tbl = [s \in StrategyNames |-> n.st.tbl[Strategies[i.k]]]]]

Step(d, i, st) == IF d = "EURUSD" THEN StepEURUSD(i, st) ELSE StepUSDJPY(i, st)

Running(i) == i.pc \notin {"idle", "done"}

\* one whole invocation, run without interruption
RECURSIVE RunToEnd(_, _, _)
RunToEnd(d, i, st) ==
    IF ~Running(i) THEN [inv |-> i, st |-> st]
    ELSE LET n == Step(d, i, st) IN RunToEnd(d, n.inv, n.st)

Store == [state |-> state, trd |-> trd, tbl |-> tbl]

Begin(raw_key) ==
    IF dep = "EURUSD" THEN BeginEURUSD(rates) ELSE BeginUSDJPY(ticks, cache, raw_key)

----------------------------------------------------------------------------
(* Bounds of the model and the samples it is fed *)

\* samples fetched after the initial history
MaxNew == 2
\* analyzer invocations that may overlap
MaxProcs == 2

CACHE_MAX == 500

Procs == 1..MaxProcs

Base(d) == IF d = "EURUSD" THEN 11000000 ELSE 15000000

\* offsets from Base, in price units, of the prices a sample may carry
Offsets(d) ==
    { 0,                                  \* the base price
      37,                                 \* a price between two rounding steps
      PipUnits * TP1,                     \* exactly the TP of a LONG opened at Base
      PipUnits * TP1 - EpsUnits(d),       \* the lowest price that still hits that TP
      PipUnits * TP1 - EpsUnits(d) - 1,   \* the highest price that misses it
      -(PipUnits * SL1) }                 \* exactly the SL of a LONG opened at Base

Prices(d) == {Base(d) + o : o \in Offsets(d)}

Sample(ts, rate) == [timestamp |-> ts, rate |-> rate]

\* price histories recorded before the analyzer runs for the first time
Flat(n, d) == [j \in 1..n |-> Sample(j, Base(d))]
Falling(n, d) == [j \in 1..n |-> Sample(j, Base(d) + PipUnits * (n - j))]
Blip(n, d) == [j \in 1..n |-> Sample(j, IF j = 1 THEN Base(d) + PipUnits ELSE Base(d))]
Dip(n, d) == [j \in 1..n |-> Sample(j, IF j = n - 1 THEN Base(d) - PipUnits * SL1 ELSE Base(d))]

Histories(d) ==
    { <<>>,
      Flat(RSI_LEN, d),
      Falling(RSI_LEN + 1, d),
      Blip(Z_W, d),
      Dip(SMA_LEN + 4, d) }

----------------------------------------------------------------------------
(* Initial state: an empty store next to a recorded price history *)

Init ==
    /\ dep \in Deployments
    /\ \E h \in Histories(dep) :
          IF dep = "EURUSD"
          THEN rates = h /\ ticks = <<>> /\ cache = <<>>
          ELSE rates = <<>> /\ ticks = h /\ cache = Reversed([j \in 1..Len(h) |-> j])
    /\ state = [s \in StrategyNames |-> <<>>]
    /\ trd = [s \in StrategyNames |-> <<>>]
    /\ tbl = [s \in StrategyNames |-> <<>>]
    /\ inv = [p \in Procs |-> Idle]
    /\ prev = Idle
    /\ nfetch = 0
    /\ ever = [s \in StrategyNames |-> {}]
    /\ fet = NoFetch
    /\ dash = NoDash
    /\ sav = NoSave

\* a position as it is identified in the store: its fields, and for a row its trade_id
PosKey(x) ==
    [open_time |-> x.open_time, open_price |-> x.open_price, direction |-> x.direction,
     sl_price |-> x.sl_price, tp_price |-> x.tp_price,
     trade_id |-> IF dep = "EURUSD" THEN x.trade_id ELSE NULL]

\* ever, extended by the positions invocation i has written
Opened(i) ==
    [s \in StrategyNames |-> ever[s] \cup {PosKey(i.obs[s].opened[j]) : j \in 1..Len(i.obs[s].opened)}]

NSamples == IF dep = "EURUSD" THEN Len(rates) ELSE Len(ticks)

\* the fetch handlers: one new sample is recorded
Record(p) ==
    IF dep = "EURUSD"
    THEN /\ rates' = Append(rates, Sample(Len(rates) + 1, p))
         /\ UNCHANGED <<ticks, cache>>
    ELSE LET key == Len(ticks) + 1
         IN  /\ ticks' = Append(ticks, Sample(key, p))
             /\ cache' = FirstN(<<key>> \o cache, CACHE_MAX)
             /\ UNCHANGED rates

\* fetch handler; no analyzer invocation is in progress
Fetch ==
    /\ nfetch < MaxNew
    /\ \E p \in Prices(dep) : Record(p)
    /\ nfetch' = nfetch + 1
    /\ inv' = [p \in Procs |-> Idle]
    /\ prev' = Idle
    /\ UNCHANGED <<dep, dash, sav, fet, state, trd, tbl, ever>>

\* the keys an analyzer invocation may be handed: none, the newest tick, a tick that does not exist
RawKeys == IF dep = "EURUSD" THEN {NoKey} ELSE {NoKey, Len(ticks), Len(ticks) + 1}

\* analyzer lambda_handler, run from start to end
Analyze ==
    \E raw_key \in RawKeys :
        \E r \in {RunToEnd(dep, Begin(raw_key), Store)} :
            /\ inv' = [inv EXCEPT ![1] = r.inv]
            /\ prev' = inv[1]
            /\ state' = r.st.state
            /\ trd' = r.st.trd
            /\ tbl' = r.st.tbl
            /\ ever' = Opened(r.inv)
            /\ UNCHANGED <<dep, dash, sav, fet, rates, ticks, cache, nfetch>>

Next == Fetch \/ Analyze

Spec == Init /\ [][Next]_vars

----------------------------------------------------------------------------
(* Overlapping analyzer invocations: every store call is a step of its own *)

\* samples fetched while invocations overlap, and the prices they may carry:
\* the TP and the SL of a LONG position opened at Base
MaxNewConc == 1
PricesConc(d) == {Base(d) + PipUnits * TP1, Base(d) - PipUnits * SL1}

\* a falling history: the classic strategy is about to open a LONG position
InitConc ==
    /\ Init
    /\ NSamples = RSI_LEN + 1

\* fetch handler, while analyzer invocations may be in progress
FetchC ==
    /\ nfetch < MaxNewConc
    /\ \E p \in PricesConc(dep) : Record(p)
    /\ nfetch' = nfetch + 1
    /\ UNCHANGED <<dep, dash, sav, fet, state, trd, tbl, inv, prev, ever>>

\* an analyzer invocation starts in slot p: everything up to its first strategy call
Start(p) ==
    /\ ~Running(inv[p])
    /\ \E raw_key \in RawKeys : inv' = [inv EXCEPT ![p] = Begin(raw_key)]
    /\ UNCHANGED <<dep, dash, sav, fet, rates, ticks, cache, state, trd, tbl, prev, nfetch, ever>>

\* the invocation in slot p performs its next store call
StepC(p) ==
    /\ Running(inv[p])
    /\ \E n \in {Step(dep, inv[p], Store)} :
           /\ inv' = [inv EXCEPT ![p] = n.inv]
           /\ state' = n.st.state
           /\ trd' = n.st.trd
           /\ tbl' = n.st.tbl
           /\ ever' = Opened(n.inv)
    /\ UNCHANGED <<dep, dash, sav, fet, rates, ticks, cache, prev, nfetch>>

NextConc == FetchC \/ \E p \in Procs : Start(p) \/ StepC(p)

SpecConc == InitConc /\ [][NextConc]_vars

----------------------------------------------------------------------------
(* Long price histories: a feed that holds a price level for 1 sample or   *)
(* for about Z_W samples before it moves to another one                    *)

MaxNewLong == 52
PricesLong(d) == {Base(d), Base(d) + PipUnits * TP1, Base(d) - PipUnits * SL1}
HoldLens == {1, Z_W - 1, Z_W, Z_W + 1}

\* the newest recorded sample
Newest == IF dep = "EURUSD" THEN rates[Len(rates)] ELSE ticks[Len(ticks)]

AllRates == IF dep = "EURUSD" THEN RatesOf(rates) ELSE RatesOf(ticks)

\* for how many samples the feed has been at its present level
TrailingRun ==
    LET r == AllRates
        n == Len(r)
        diff == {j \in 1..n : r[j] # r[n]}
    IN  IF diff = {} THEN n ELSE n - (CHOOSE j \in diff : \A j2 \in diff : j2 <= j)

\* how often the feed has moved to another level, and how often it may
MaxMoves == 3
Moves == Cardinality({j \in 2..Len(AllRates) : AllRates[j] # AllRates[j - 1]})

InitLong ==
    /\ Init
    /\ NSamples = Z_W

FetchL ==
    /\ nfetch < MaxNewLong
    /\ \E p \in PricesLong(dep) :
          /\ p = Newest.rate \/ (TrailingRun \in HoldLens /\ Moves < MaxMoves)
          /\ Record(p)
    /\ nfetch' = nfetch + 1
    /\ inv' = [p \in Procs |-> Idle]
    /\ prev' = Idle
    /\ UNCHANGED <<dep, dash, sav, fet, state, trd, tbl, ever>>

\* the analyzer is invoked for the samples at which the feed may move
AnalyzeL ==
    /\ TrailingRun \in HoldLens
    /\ Analyze

NextLong == FetchL \/ AnalyzeL

SpecLong == InitLong /\ [][NextLong]_vars

----------------------------------------------------------------------------
(* What the claims speak about *)

\* the open positions of strategy s, and its closed trades
OpenPositions(s) == IF dep = "EURUSD" THEN OpenRows(tbl[s]) ELSE state[s]
Ledger(s) == IF dep = "EURUSD" THEN SelectSeq(tbl[s], LAMBDA r : r.close_time # NULL) ELSE trd[s]

\* the last analyzer run of the sequential specification has returned
Done == inv[1].pc = "done"
\* ... and it repeated the run before it on the same sample and the same store
Rerun == Done /\ prev.pc = "done" /\ prev.raw_key = inv[1].raw_key

Sign(direction) == IF direction = "LONG" THEN 1 ELSE -1
OnGrid(x) == x % RoundStep(dep) = 0

----------------------------------------------------------------------------
\* C1: after any sequence of non-overlapping evaluations every strategy has
\* at most one open position (at most one row with close_time NULL per
\* trades table, at most one non-empty state object per strategy).
C1_AtMostOneOpen == \A s \in StrategyNames : Len(OpenPositions(s)) <= 1

\* a second position of a strategy is open after its first one was closed
C1_Witness ==
    /\ dep = "EURUSD"
    /\ \E s \in StrategyNames : Len(OpenPositions(s)) = 1 /\ Len(Ledger(s)) >= 1

\* C4: re-running the same evaluation against the store left by the first
\* run, with no new sample, appends no ClosedTrade, creates a Position only
\* if the first run created none, and leaves at most one Position open.
C4_RerunIdempotent ==
    Rerun =>
      \A s \in StrategyNames :
        /\ inv[1].obs[s].closed = <<>>
        /\ inv[1].obs[s].opened # <<>> => prev.obs[s].opened = <<>>
        /\ Len(OpenPositions(s)) <= 1

\* the second run met the position the first run had opened
C4_Witness ==
    /\ Rerun
    /\ \E s \in StrategyNames :
          /\ prev.obs[s].opened # <<>>
          /\ inv[1].obs[s].pre # <<>>
          /\ inv[1].obs[s].opened = <<>>

\* C5: if the strategy is OPEN when its evaluation starts, no new position
\* is opened in that evaluation (exit branch and entry branch exclude each
\* other), in both deployments.
C5_ExitExcludesEntry ==
    Done => \A s \in StrategyNames :
                inv[1].obs[s].pre # <<>> => inv[1].obs[s].opened = <<>>

\* C6: a Position is created only in an evaluation in which no Position of
\* the strategy exists (none when the evaluation starts, none when the new
\* one is written) and an entry predicate is true; it is LONG when the long
\* predicate is true and SHORT when only the short one is; its open_price
\* and open_time are the rate and the timestamp of the evaluated sample.
C6_EntryOnlyWhenFlat ==
    Done =>
      \A s \in StrategyNames :
        LET o == inv[1].obs[s]
            sg == inv[1].sig[s]
        IN  o.opened # <<>> =>
              /\ o.pre = <<>>
              /\ o.at_open = <<>>
              /\ sg.long_c \/ sg.short_c
              /\ sg.long_c => o.opened[1].direction = "LONG"
              /\ (sg.short_c /\ ~sg.long_c) => o.opened[1].direction = "SHORT"
              /\ o.opened[1].open_price = Newest.rate
              /\ o.opened[1].open_time = Newest.timestamp
              /\ OpenPositions(s) = o.opened

\* C8 as stated: a LONG position gets sl_price = p - SL*pip_size and
\* tp_price = p + TP*pip_size, a SHORT one sl_price = p + SL*pip_size and
\* tp_price = p - TP*pip_size.
C8_ExactLevels ==
    \A s \in StrategyNames :
      \A j \in 1..Len(OpenPositions(s)) :
        LET P == OpenPositions(s)[j]
        IN  /\ P.sl_price = P.open_price - Sign(P.direction) * SL(s) * PipUnits
            /\ P.tp_price = P.open_price + Sign(P.direction) * TP(s) * PipUnits

\* C8 amended: sl_price and tp_price are those levels rounded to the
\* instrument's precision (a multiple of the rounding step, at most half a
\* step away), hence exactly those levels when the price is itself on the
\* rounding grid; LONG at 1.1000 with SL 20 / TP 30 gives 1.0980 and 1.1030
\* and a later price of 1.1030 closes it with result_pips 30.0.
C8_RoundedLevels ==
    /\ \A s \in StrategyNames :
         \A j \in 1..Len(OpenPositions(s)) :
           LET P == OpenPositions(s)[j]
               sl == P.open_price - Sign(P.direction) * SL(s) * PipUnits
               tp == P.open_price + Sign(P.direction) * TP(s) * PipUnits
           IN  /\ OnGrid(P.sl_price) /\ OnGrid(P.tp_price)
               /\ 2 * Abs(P.sl_price - sl) <= RoundStep(dep)
               /\ 2 * Abs(P.tp_price - tp) <= RoundStep(dep)
               /\ OnGrid(P.open_price) => P.sl_price = sl /\ P.tp_price = tp
               /\ (dep = "EURUSD" /\ s = "classic" /\ P.direction = "LONG" /\ P.open_price = 11000000)
                     => P.sl_price = 10980000 /\ P.tp_price = 11030000
    /\ dep = "EURUSD" =>
         \A j \in 1..Len(Ledger("classic")) :
           LET T == Ledger("classic")[j]
           IN  (T.direction = "LONG" /\ T.open_price = 11000000 /\ T.close_price = 11030000)
                 => T.result_pips = 300

\* the round trip of the example has happened, and a position was opened off the grid
C8_Witness ==
    /\ dep = "EURUSD"
    /\ \E j \in 1..Len(Ledger("classic")) :
          LET T == Ledger("classic")[j]
          IN  T.direction = "LONG" /\ T.open_price = 11000000 /\ T.close_price = 11030000
    /\ \E s \in StrategyNames : \E j \in 1..Len(OpenPositions(s)) :
          ~OnGrid(OpenPositions(s)[j].open_price)

\* C9: an evaluation at price x of an OPEN strategy closes the position if
\* and only if hit_tp or hit_sl holds (LONG: x >= tp - eps, x <= sl + eps;
\* SHORT: x <= tp + eps, x >= sl - eps); otherwise position and ledger are
\* unchanged.
C9_CloseIffHit ==
    Done =>
      \A s \in StrategyNames :
        LET o == inv[1].obs[s]
            x == inv[1].price
            eps == EpsUnits(dep)
        IN  o.pre # <<>> =>
              LET P == o.pre[1]
                  hit == IF P.direction = "LONG"
                         THEN x >= P.tp_price - eps \/ x <= P.sl_price + eps
                         ELSE x <= P.tp_price + eps \/ x >= P.sl_price - eps
              IN  /\ hit <=> o.closed # <<>>
                  /\ ~hit => OpenPositions(s) = o.pre /\ o.opened = <<>>
                  /\ hit => \A j \in 1..Len(OpenPositions(s)) : OpenPositions(s)[j] # P

\* a LONG position was closed by the lowest price that hits its TP
C9_Witness ==
    /\ Done
    /\ \E s \in StrategyNames :
          LET o == inv[1].obs[s]
          IN  /\ o.pre # <<>> /\ o.closed # <<>>
              /\ o.pre[1].direction = "LONG"
              /\ inv[1].price = o.pre[1].tp_price - EpsUnits(dep)

----------------------------------------------------------------------------
\* C2: under every interleaving of two overlapping evaluations of a
\* strategy, a position is opened only if the slot is still empty at the
\* moment of the write, so that at most one position is open.
C2_OpenOnlyIfEmpty ==
    /\ \A p \in Procs : \A s \in StrategyNames :
          inv[p].obs[s].opened # <<>> => inv[p].obs[s].at_open = <<>>
    /\ \A s \in StrategyNames : Len(OpenPositions(s)) <= 1

TradesOf(P, s) == Cardinality({j \in 1..Len(Ledger(s)) : PosKey(Ledger(s)[j]) = P})
InSlot(P, s) == \E j \in 1..Len(OpenPositions(s)) : PosKey(OpenPositions(s)[j]) = P

\* C3: closing is one atomic step: every position that is no longer in the
\* slot has exactly one ClosedTrade, no position has two, also under
\* interleaved overlapping evaluations.
C3_CloseAtomic ==
    \A s \in StrategyNames : \A P \in ever[s] :
        /\ TradesOf(P, s) <= 1
        /\ ~InSlot(P, s) => TradesOf(P, s) = 1

----------------------------------------------------------------------------
\* the window of prices the last evaluation worked on
Window == IF dep = "EURUSD" THEN RatesOf(WindowEURUSD(rates)) ELSE WindowUSDJPY(ticks, cache)

\* the returns whose standard deviation the z-score divides by
StdReturns ==
    IF dep = "EURUSD" THEN Deltas(Window, Z_W) ELSE SubSeq(Deltas(Window, Z_W), 1, Z_W - 1)

\* an indicator strategy s depends on has no value for the window
NoValue(s) ==
    CASE s = "classic" -> Len(Window) < RSI_LEN + 1
      [] s = "anomaly" -> Len(Window) < Z_W + 1 \/ AllEqual(StdReturns)
      [] OTHER -> Len(Window) < SMA_LEN \/ Len(Window) < 5

\* C7: when an indicator a strategy depends on returns no value for the
\* current window (too few samples for RSI, z-score or SMA/fractal, or a
\* zero standard deviation for the z-score), the evaluation neither closes
\* nor opens a position of that strategy: position and ledger are unchanged.
C7_NoValueNoChange ==
    Done =>
      \A s \in StrategyNames :
        NoValue(s) => inv[1].obs[s].closed = <<>> /\ inv[1].obs[s].opened = <<>>

----------------------------------------------------------------------------
(* The scenario of a falling market: from an empty store, samples that     *)
(* fall by a fixed number of pips are fed one evaluation at a time; the    *)
(* sample after them is the TP of the classic position.                    *)

\* samples of the scenario
MaxScen == 16
\* by how many pips a sample falls below the one before it
ScenSteps == {1, 2, 10}

\* the last analyzer run evaluated the newest sample
Evaluated == inv[1].pc = "done" /\ inv[1].status = 200

InitScen ==
    /\ dep \in Deployments
    /\ rates = <<>> /\ ticks = <<>> /\ cache = <<>>
    /\ state = [s \in StrategyNames |-> <<>>]
    /\ trd = [s \in StrategyNames |-> <<>>]
    /\ tbl = [s \in StrategyNames |-> <<>>]
    /\ inv = [p \in Procs |-> Idle]
    /\ prev = Idle
    /\ nfetch = 0
    /\ ever = [s \in StrategyNames |-> {}]
    /\ fet = NoFetch
    /\ dash = NoDash
    /\ sav = NoSave

\* the prices the next sample of the scenario may carry
ScenPrices ==
    IF NSamples = 0 THEN {Base(dep) + RSI_LEN * d * PipUnits : d \in ScenSteps}
    ELSE IF NSamples < RSI_LEN + 1
         THEN {Newest.rate - (AllRates[1] - Base(dep)) \div RSI_LEN}
         ELSE {state["classic"][j].tp_price : j \in 1..Len(state["classic"])}
              \cup {OpenRows(tbl["classic"])[j].tp_price : j \in 1..Len(OpenRows(tbl["classic"]))}

FetchS ==
    /\ nfetch < MaxScen
    /\ NSamples = 0 \/ Evaluated
    /\ \E p \in ScenPrices : Record(p)
    /\ nfetch' = nfetch + 1
    /\ inv' = [p \in Procs |-> Idle]
    /\ prev' = Idle
    /\ UNCHANGED <<dep, dash, sav, fet, state, trd, tbl, ever>>

NextScen == FetchS \/ Analyze

SpecScen == InitScen /\ [][NextScen]_vars

\* the first n recorded prices are strictly decreasing
Decreasing(n) == NSamples >= n /\ \A j \in 2..n : AllRates[j] < AllRates[j - 1]

\* C11: from an empty store, 15 strictly decreasing prices fed one evaluation
\* at a time leave the classic strategy with a LONG position opened at the
\* last of them; the evaluation of a next sample equal to its tp_price closes
\* it with result_pips 30.0 and leaves the classic strategy FLAT.
C11_FallingThenTp ==
    /\ (Evaluated /\ NSamples = RSI_LEN + 1 /\ Decreasing(RSI_LEN + 1)) =>
          /\ Len(OpenPositions("classic")) = 1
          /\ OpenPositions("classic")[1].direction = "LONG"
          /\ OpenPositions("classic")[1].open_price = Newest.rate
    /\ (Evaluated /\ NSamples = RSI_LEN + 2 /\ Decreasing(RSI_LEN + 1)
          /\ inv[1].obs["classic"].pre # <<>>
          /\ Newest.rate = inv[1].obs["classic"].pre[1].tp_price) =>
          /\ Len(Ledger("classic")) = 1
          /\ Ledger("classic")[1].result_pips = 10 * TP1
          /\ OpenPositions("classic") = <<>>

----------------------------------------------------------------------------
(* The closing rule as a function of the stored position and the price:    *)
(* the store holds a classic position whose levels are drawn from a small  *)
(* set, among them levels that a price hits both as TP and as SL.          *)

\* samples fetched after the initial history
MaxNewTie == 1
\* sl_price, tp_price and the fetched prices, as offsets from Base
TieOffsets == {-(10 * PipUnits), 0, 10 * PipUnits}

TiePositions(d) ==
    {[open_time |-> RSI_LEN, open_price |-> Base(d), direction |-> dir,
      sl_price |-> Base(d) + so, tp_price |-> Base(d) + to] :
        dir \in {"LONG", "SHORT"}, so \in TieOffsets, to \in TieOffsets}

InitTie ==
    /\ dep \in Deployments
    /\ IF dep = "EURUSD"
       THEN rates = Flat(RSI_LEN, dep) /\ ticks = <<>> /\ cache = <<>>
       ELSE rates = <<>> /\ ticks = Flat(RSI_LEN, dep)
            /\ cache = Reversed([j \in 1..RSI_LEN |-> j])
    /\ \E P \in TiePositions(dep) :
          /\ state = [s \in StrategyNames |->
                        IF dep = "USDJPY" /\ s = "classic" THEN <<P>> ELSE <<>>]
          /\ tbl = [s \in StrategyNames |->
                        IF dep = "EURUSD" /\ s = "classic" THEN <<Row(1, P)>> ELSE <<>>]
          /\ ever = [s \in StrategyNames |->
                        IF s = "classic"
                        THEN {PosKey(IF dep = "EURUSD" THEN Row(1, P) ELSE P)} ELSE {}]
    /\ trd = [s \in StrategyNames |-> <<>>]
    /\ inv = [p \in Procs |-> Idle]
    /\ prev = Idle
    /\ nfetch = 0
    /\ fet = NoFetch
    /\ dash = NoDash
    /\ sav = NoSave

FetchT ==
    /\ nfetch < MaxNewTie
    /\ \E o \in TieOffsets : Record(Base(dep) + o)
    /\ nfetch' = nfetch + 1
    /\ inv' = [p \in Procs |-> Idle]
    /\ prev' = Idle
    /\ UNCHANGED <<dep, dash, sav, fet, state, trd, tbl, ever>>

NextTie == FetchT \/ Analyze

SpecTie == InitTie /\ [][NextTie]_vars

\* the ledger entries of position P of strategy s
ClosedOf(P, s) == {Ledger(s)[j] : j \in {j \in 1..Len(Ledger(s)) : PosKey(Ledger(s)[j]) = PosKey(P)}}

\* the price x hits the TP and the SL of P
BothHit(P, x) ==
    IF P.direction = "LONG"
    THEN x >= P.tp_price - EpsUnits(dep) /\ x <= P.sl_price + EpsUnits(dep)
    ELSE x <= P.tp_price + EpsUnits(dep) /\ x >= P.sl_price - EpsUnits(dep)

\* C12: if hit_tp and hit_sl are both true in the evaluation of an open
\* position, the trade is closed with the TP outcome: result_pips is
\* computed from tp_price, never from sl_price.
C12_TpPreferred ==
    Done =>
      \A s \in StrategyNames :
        LET o == inv[1].obs[s]
        IN  (o.pre # <<>> /\ BothHit(o.pre[1], inv[1].price)) =>
              /\ o.closed # <<>>
              /\ ClosedOf(o.pre[1], s) # {}
              /\ \A T \in ClosedOf(o.pre[1], s) :
                    T.result_pips = RoundDiv(Sign(T.direction) * (T.tp_price - T.open_price),
                                             PipUnits \div 10)

\* a position was closed by a price that hit both levels, and the two outcomes differ
C12_Witness ==
    /\ Done
    /\ \E s \in StrategyNames :
          LET o == inv[1].obs[s]
          IN  /\ o.pre # <<>> /\ BothHit(o.pre[1], inv[1].price)
              /\ o.pre[1].tp_price # o.pre[1].sl_price
              /\ \E T \in ClosedOf(o.pre[1], s) :
                    T.result_pips # RoundDiv(Sign(T.direction) * (T.sl_price - T.open_price),
                                             PipUnits \div 10)

----------------------------------------------------------------------------
(* The indicators as functions of the price window: the history is drawn   *)
(* from ramps (rising, constant, falling) of lengths around RSI_LEN + 1    *)
(* and from constant histories that end in a five-sample pattern; a few    *)
(* more samples are fetched, and the analyzer is run on the result.        *)

\* samples fetched after the initial history
MaxNewInd == 2
\* lengths of the ramps, their step in pips, and the step of a fetched sample
RampLens == {0, RSI_LEN - 1, RSI_LEN, RSI_LEN + 1, RSI_LEN + 6}
RampSteps == {-1, 0, 1}

Ramp(n, step, d) == [j \in 1..n |-> Sample(j, Base(d) + PipUnits * step * (j - n))]

\* the last five samples, in pips above Base
Patterns ==
    { <<1, 2, 5, 3, 1>>, <<5, 3, 1, 2, 4>>, <<0, 0, 0, 0, 0>>,
      <<1, 5, 5, 3, 1>>, <<1, 2, 5, 5, 1>>, <<4, 1, 1, 2, 4>>, <<6, 2, 5, 3, 1>>,
      <<3, 3, 3, 3, 3>> }

PatternHist(pat, d) ==
    [j \in 1..(SMA_LEN + 5) |->
        Sample(j, IF j <= SMA_LEN THEN Base(d) ELSE Base(d) + PipUnits * pat[j - SMA_LEN])]

HistoriesInd(d) ==
    {Ramp(n, step, d) : n \in RampLens, step \in RampSteps}
        \cup {PatternHist(pat, d) : pat \in Patterns}

InitInd ==
    /\ dep \in Deployments
    /\ \E h \in HistoriesInd(dep) :
          IF dep = "EURUSD"
          THEN rates = h /\ ticks = <<>> /\ cache = <<>>
          ELSE rates = <<>> /\ ticks = h /\ cache = Reversed([j \in 1..Len(h) |-> j])
    /\ state = [s \in StrategyNames |-> <<>>]
    /\ trd = [s \in StrategyNames |-> <<>>]
    /\ tbl = [s \in StrategyNames |-> <<>>]
    /\ inv = [p \in Procs |-> Idle]
    /\ prev = Idle
    /\ nfetch = 0
    /\ ever = [s \in StrategyNames |-> {}]
    /\ fet = NoFetch
    /\ dash = NoDash
    /\ sav = NoSave

FetchI ==
    /\ nfetch < MaxNewInd
    /\ \E step \in RampSteps :
          Record(IF NSamples = 0 THEN Base(dep) + PipUnits * step
                 ELSE Newest.rate + PipUnits * step)
    /\ nfetch' = nfetch + 1
    /\ inv' = [p \in Procs |-> Idle]
    /\ prev' = Idle
    /\ UNCHANGED <<dep, dash, sav, fet, state, trd, tbl, ever>>

NextInd == FetchI \/ Analyze

SpecInd == InitInd /\ [][NextInd]_vars

StrictlyUp(w) == \A j \in 2..Len(w) : w[j] > w[j - 1]
StrictlyDown(w) == \A j \in 2..Len(w) : w[j] < w[j - 1]
Constant(w) == \A j \in 2..Len(w) : w[j] = w[j - 1]

\* the two RSI functions applied to the window
RsiEURUSD == safe_rsi(Window, RSI_LEN)
RsiUSDJPY == rsi(Window, RSI_LEN)

\* C13: rsi(history, n) has no value for a history of fewer than n+1 samples
\* and a value for one of at least n+1; for a strictly increasing history of
\* at least n+1 samples it is 100, for a strictly decreasing one it is 0, and
\* then the classic long predicate rsi < 30 is true (both RSI functions).
C13_RsiDefinedAndExtremes ==
    /\ \A r \in {RsiEURUSD, RsiUSDJPY} :
          /\ Len(Window) < RSI_LEN + 1 <=> r = None
          /\ (Len(Window) >= RSI_LEN + 1 /\ StrictlyUp(Window)) => r[1] = 100 * r[2]
          /\ (Len(Window) >= RSI_LEN + 1 /\ StrictlyDown(Window)) => r[1] = 0 /\ RsiLt(r, 30)
    /\ (Evaluated /\ Len(Window) >= RSI_LEN + 1 /\ StrictlyDown(Window)) =>
          inv[1].sig["classic"].long_c /\ ~inv[1].sig["classic"].short_c

\* the analyzer has evaluated a strictly decreasing window of more than n+1
\* samples and opened the classic position on it
C13_Witness ==
    /\ Evaluated
    /\ Len(Window) > RSI_LEN + 1
    /\ StrictlyDown(Window)
    /\ inv[1].obs["classic"].opened # <<>>

\* the last RSI_LEN price deltas of the window hold no loss, no gain
NoLoss == \A i \in 1..RSI_LEN : Deltas(Window, RSI_LEN)[i] >= 0
NoGain == \A i \in 1..RSI_LEN : Deltas(Window, RSI_LEN)[i] <= 0

\* C14: when the last n deltas give avg_loss = 0, rsi is 100 only if
\* avg_gain > 0; when avg_gain is 0 as well (constant prices) it is a neutral
\* value, neither < 30 nor > 70, so that a constant-price window never opens
\* a classic position; in both deployments.
C14_FlatRsiNeutral ==
    /\ \A r \in {RsiEURUSD, RsiUSDJPY} :
          r # None =>
            /\ (NoLoss /\ ~NoGain) => r[1] = 100 * r[2]
            /\ (NoLoss /\ NoGain) => ~RsiLt(r, 30) /\ ~RsiGt(r, 70)
    /\ (Evaluated /\ Len(Window) >= RSI_LEN + 1 /\ NoLoss /\ NoGain) =>
          inv[1].obs["classic"].opened = <<>>

\* the classic entry decision taken from an RSI value
Decision(r) == IF RsiLt(r, 30) THEN "LONG" ELSE IF RsiGt(r, 70) THEN "SHORT" ELSE "none"

\* two RSI values are the same number (fractions are first reduced by the
\* pip unit, which keeps the products small)
Reduced(r) ==
    IF r[1] % PipUnits = 0 /\ r[2] % PipUnits = 0
    THEN <<r[1] \div PipUnits, r[2] \div PipUnits>> ELSE r
SameFraction(a, b) == Reduced(a)[1] * Reduced(b)[2] = Reduced(b)[1] * Reduced(a)[2]

\* C15: the two deployments implement the same RSI: on every price history
\* safe_rsi (EURUSD) and rsi (USDJPY) both have no value or have the same
\* value, hence take the same classic entry decision.
C15_SameRsi ==
    /\ RsiEURUSD = None <=> RsiUSDJPY = None
    /\ RsiEURUSD # None =>
          /\ SameFraction(RsiEURUSD, RsiUSDJPY)
          /\ Decision(RsiEURUSD) = Decision(RsiUSDJPY)

\* the spec's local high and local low over the last five samples [a, b, c, d, e]
LocalHigh(w) ==
    LET n == Len(w)
    IN  /\ \A j \in (n - 4)..n : w[n - 2] >= w[j]
        /\ w[n - 2] > w[n - 3]
        /\ w[n - 2] > w[n - 1]
LocalLow(w) ==
    LET n == Len(w)
    IN  /\ \A j \in (n - 4)..n : w[n - 2] <= w[j]
        /\ w[n - 2] < w[n - 3]
        /\ w[n - 2] < w[n - 1]

\* C16: over the last five samples [a,b,c,d,e] the fractal detector flags c
\* as a local high iff c = max(a,b,c,d,e), c > b and c > d, and as a local
\* low iff c = min(a,b,c,d,e), c < b and c < d, in both deployments; five
\* equal prices are neither.
C16_FractalDetector ==
    Len(Window) >= 5 =>
      /\ is_high_eurusd(Window) <=> LocalHigh(Window)
      /\ is_low_eurusd(Window) <=> LocalLow(Window)
      /\ is_hi_usdjpy(Window) <=> LocalHigh(Window)
      /\ is_lo_usdjpy(Window) <=> LocalLow(Window)

\* the returns of the window have zero standard deviation
ZeroStd == Len(Window) >= Z_W + 1 /\ AllEqual(StdReturns)

\* C17: for a window whose log-returns have zero standard deviation (such as
\* a constant-price window of at least w+1 samples) the z-score yields no
\* usable value (none in USDJPY, the substitute 0.0 in EURUSD, no division by
\* the deviation) and the anomaly strategy opens no position in that
\* evaluation, whatever the RSI.
C17_ZeroStdNoEntry ==
    ZeroStd =>
      /\ dep = "USDJPY" => z_score(Window, Z_W) = None
      /\ dep = "EURUSD" => z_eurusd(Window) = ZeroZ
      /\ Evaluated => /\ ~inv[1].sig["anomaly"].long_c /\ ~inv[1].sig["anomaly"].short_c
                      /\ inv[1].obs["anomaly"].opened = <<>>

\* the anomaly strategy was called on a zero-deviation window while the RSI
\* was extreme enough to open a classic position
C17_Witness ==
    /\ ZeroStd
    /\ Evaluated
    /\ inv[1].obs["anomaly"].called
    /\ inv[1].obs["classic"].opened # <<>>
    /\ ~Constant(Window)

\* C18 as stated: in every invocation that reaches strategy evaluation each
\* of the three strategies is evaluated exactly once, in the order classic,
\* anomaly, fractal, whatever the length of the window.
C18_AllThreeInOrder ==
    (Evaluated /\ inv[1].order # <<>>) => inv[1].order = Strategies

\* the strategies a window of n samples is long enough for
LongEnough(n) ==
    IF dep = "EURUSD"
    THEN (IF n >= RSI_LEN + 1 THEN <<"classic">> ELSE <<>>)
           \o (IF n >= RSI_LEN + 1 /\ n >= Z_W + 1 THEN <<"anomaly">> ELSE <<>>)
           \o (IF n >= RSI_LEN + 1 /\ n >= SMA_LEN THEN <<"fractal">> ELSE <<>>)
    ELSE (IF n >= 2 THEN <<"classic", "anomaly">> ELSE <<>>)
           \o (IF n >= SMA_LEN + 5 THEN <<"fractal">> ELSE <<>>)

\* C18 amended: in every invocation that gets to evaluate the window, the
\* strategies the window is long enough for are each evaluated exactly once,
\* in the order classic, anomaly, fractal, whatever the other strategies did;
\* a strategy the window is too short for is not evaluated at all.
C18_LongEnoughInOrder ==
    Evaluated => inv[1].order = LongEnough(Len(Window))

\* all three were evaluated in one invocation, and one of them opened a position
C18_Witness ==
    /\ Evaluated
    /\ inv[1].order = Strategies
    /\ \E s \in StrategyNames : inv[1].obs[s].opened # <<>>

----------------------------------------------------------------------------
(* Histories about as long as the window: one sample fewer than its        *)
(* capacity, exactly its capacity, one more; every sample at another price *)

Capacity(d) == IF d = "EURUSD" THEN WIN_EURUSD ELSE WIN_USDJPY

Rising(n, d) == [j \in 1..n |-> Sample(j, Base(d) + j)]

InitWin ==
    /\ dep \in Deployments
    /\ \E n \in {Capacity(dep) - 1, Capacity(dep), Capacity(dep) + 1} :
          IF dep = "EURUSD"
          THEN rates = Rising(n, dep) /\ ticks = <<>> /\ cache = <<>>
          ELSE /\ rates = <<>>
               /\ ticks = Rising(n, dep)
               /\ cache = FirstN(Reversed([j \in 1..n |-> j]), CACHE_MAX)
    /\ state = [s \in StrategyNames |-> <<>>]
    /\ trd = [s \in StrategyNames |-> <<>>]
    /\ tbl = [s \in StrategyNames |-> <<>>]
    /\ inv = [p \in Procs |-> Idle]
    /\ prev = Idle
    /\ nfetch = 0
    /\ ever = [s \in StrategyNames |-> {}]
    /\ fet = NoFetch
    /\ dash = NoDash
    /\ sav = NoSave

MaxNewWin == 2

FetchW ==
    /\ nfetch < MaxNewWin
    /\ \E p \in PricesLong(dep) : Record(p)
    /\ nfetch' = nfetch + 1
    /\ inv' = [p \in Procs |-> Idle]
    /\ prev' = Idle
    /\ UNCHANGED <<dep, dash, sav, fet, state, trd, tbl, ever>>

NextWin == FetchW \/ Analyze

SpecWin == InitWin /\ [][NextWin]_vars

\* the most recent min(NSamples, capacity) recorded rates, oldest first
MostRecent ==
    LET len == IF NSamples <= Capacity(dep) THEN NSamples ELSE Capacity(dep)
    IN  [j \in 1..len |-> AllRates[NSamples - len + j]]

\* C19: the window the indicators are computed on is the most recent recorded
\* samples, oldest first, and never longer than the capacity (100 USDJPY,
\* 300 EURUSD); with more samples recorded the oldest ones are left out.
\* The signals of an invocation are those of that window.
C19_MostRecentWindow ==
    /\ Window = MostRecent
    /\ Len(Window) <= Capacity(dep)
    /\ (Evaluated /\ inv[1].order # <<>>) =>
          inv[1].sig = IF dep = "EURUSD" THEN SigEURUSD(MostRecent, inv[1].price)
                       ELSE SigUSDJPY(MostRecent, inv[1].price)

\* more samples than the capacity are recorded, the oldest is not in the
\* window, and the analyzer has evaluated all three strategies on it
C19_Witness ==
    /\ NSamples > Capacity(dep)
    /\ Len(Window) = Capacity(dep)
    /\ Window[1] # AllRates[1]
    /\ Evaluated
    /\ inv[1].order = Strategies

\* the statusCode of an error result: 404 (USDJPY), 500 (EURUSD)
Errors == {404, 500}

\* the data the invocation that has returned was to work on is not there:
\* no row in the rates table; no tick object under the key, or no key at all
MissingData ==
    IF dep = "EURUSD" THEN rates = <<>> ELSE inv[1].raw_key \notin DOMAIN ticks

\* C20: when the upstream data is missing (USDJPY: empty cache and no raw_key,
\* or no tick object under the key; EURUSD: no row in the rates table) the
\* analyzer returns an error result, no strategy has been evaluated, and the
\* invocation leaves the position state and the trade records as they were.
C20_MissingDataNoWrite ==
    /\ [](Done /\ MissingData =>
             /\ inv[1].status \in Errors
             /\ inv[1].order = <<>>
             /\ inv[1].obs = NoObs)
    /\ [][(inv'[1].pc = "done" /\ inv'[1].status \in Errors) =>
             /\ MissingData'
             /\ UNCHANGED <<state, trd, tbl>>]_vars

\* an invocation returned an error while a position was open
C20_Witness ==
    /\ Done
    /\ MissingData
    /\ inv[1].status \in Errors
    /\ \E s \in StrategyNames : OpenPositions(s) # <<>>

----------------------------------------------------------------------------
(* The fetch handlers *)

\* what the rates API may answer: a rate, an answer without a rate, an HTTP error
ApiResponses(d) ==
    {[status |-> 200, rate |-> p] : p \in PricesLong(d)}
        \cup {[status |-> 200, rate |-> NULL], [status |-> 503, rate |-> NULL]}

fetch_eurusd_EnvUnchecked(ssm, missing, api) ==
    LET f0 == [IdleFetch EXCEPT !.pc = "done", !.ssm = ssm, !.missing = missing]
        f1 == [f0 EXCEPT !.requested = TRUE, !.api = api]
    IN  IF ssm # "ok" THEN [f0 EXCEPT !.status = 500]
        ELSE IF api.status # 200 THEN [f1 EXCEPT !.status = 500]
        ELSE IF api.rate = NULL THEN [f1 EXCEPT !.status = 500]
        ELSE [f1 EXCEPT !.inserted = TRUE, !.status = 200]

\* EURUSD fetch lambda_handler: the invocation as it returns
fetch_eurusd(ssm, missing, api) ==
    LET f0 == [IdleFetch EXCEPT !.pc = "done", !.ssm = ssm, !.missing = missing]
        f1 == [f0 EXCEPT !.requested = TRUE, !.api = api]
    IN  \* get_parameter raised: EnvironmentError
        IF ssm # "ok" THEN [f0 EXCEPT !.status = 500]
        \* if missing: raise EnvironmentError
        ELSE IF missing # {} THEN [f0 EXCEPT !.status = 500]
        \* resp.status != 200: RuntimeError (or HTTPError of urlopen)
        ELSE IF api.status # 200 THEN [f1 EXCEPT !.status = 500]
        \* rate_value is None: ValueError
        ELSE IF api.rate = NULL THEN [f1 EXCEPT !.status = 500]
        \* INSERT INTO eurusd_rates (timestamp, rate)
        ELSE [f1 EXCEPT !.inserted = TRUE, !.status = 200]

\* USDJPY fetch lambda_handler, one store call per step: the invocation f,
\* the tick objects tk and cache.json ch are mapped to their next values;
\* api and key (the second the clock shows) are read by the first step only
FetchStepUSDJPY(f, tk, ch, api, key) ==
    CASE f.pc = "idle" ->
           \* urlopen or data["result"]["JPY"] raised: the invocation fails
           IF api.status # 200 \/ api.rate = NULL
           THEN [fet |-> [IdleFetch EXCEPT !.pc = "failed", !.requested = TRUE, !.api = api],
                 ticks |-> tk, cache |-> ch]
           \* s3.put_object(Key = "ticks/<ts>.json", Body = {timestamp, rate})
           ELSE [fet |-> [IdleFetch EXCEPT !.pc = "get_cache", !.requested = TRUE, !.api = api,
                                           !.key = key, !.inserted = TRUE],
                 ticks |-> IF key \in DOMAIN tk
                           THEN [tk EXCEPT ![key] = Sample(key, api.rate)]
                           ELSE Append(tk, Sample(key, api.rate)),
                 cache |-> ch]
      [] f.pc = "get_cache" ->
           \* cache = json.loads(s3.get_object(Key = CACHE_KEY)), [] on NoSuchKey
           [fet |-> [f EXCEPT !.pc = "put_cache", !.cache = ch], ticks |-> tk, cache |-> ch]
      [] f.pc = "put_cache" ->
           \* if key not in cache: cache.insert(0, key); cache = cache[:500]; put_object
           [fet |-> [f EXCEPT !.pc = "done", !.status = 200],
            ticks |-> tk,
            cache |-> IF \E j \in 1..Len(f.cache) : f.cache[j] = f.key THEN ch
                      ELSE FirstN(<<f.key>> \o f.cache, CACHE_MAX)]

\* the seconds the clock may show when a tick is written: that of the newest
\* tick again, or the next one
Clock == {k \in {Len(ticks), Len(ticks) + 1} : k >= 1}

----------------------------------------------------------------------------
(* Fetch invocations that do not overlap, with everything that can go      *)
(* wrong in them; for USDJPY next to a cache that is nearly or just full   *)

MaxNewFetch == 2

InitFetch ==
    /\ dep \in Deployments
    /\ IF dep = "EURUSD"
       THEN /\ \E n \in {0, RSI_LEN + 1} : rates = Flat(n, dep)
            /\ ticks = <<>>
            /\ cache = <<>>
       ELSE /\ rates = <<>>
            /\ \E n \in {0, 2, CACHE_MAX - 1, CACHE_MAX} :
                  ticks = Flat(n, dep) /\ cache = Reversed([j \in 1..n |-> j])
    /\ state = [s \in StrategyNames |-> <<>>]
    /\ trd = [s \in StrategyNames |-> <<>>]
    /\ tbl = [s \in StrategyNames |-> <<>>]
    /\ inv = [p \in Procs |-> Idle]
    /\ prev = Idle
    /\ nfetch = 0
    /\ ever = [s \in StrategyNames |-> {}]
    /\ fet = NoFetch
    /\ dash = NoDash
    /\ sav = NoSave

\* EURUSD fetch lambda_handler, from start to end
FetchE ==
    /\ dep = "EURUSD"
    /\ nfetch < MaxNewFetch
    /\ \E ssm \in {"ok", "ParameterNotFound", "error"},
          missing \in SUBSET {"DB_HOST", "DB_NAME", "DB_USER", "DB_PASSWORD"},
          api \in ApiResponses(dep) :
          \E f \in {fetch_eurusd(ssm, missing, api)} :
             /\ fet' = [fet EXCEPT ![1] = f]
             /\ rates' = IF f.inserted
                         THEN Append(rates, Sample(Len(rates) + 1, api.rate))
                         ELSE rates
    /\ nfetch' = nfetch + 1
    /\ inv' = [p \in Procs |-> Idle]
    /\ prev' = Idle
    /\ UNCHANGED <<dep, dash, sav, ticks, cache, state, trd, tbl, ever>>

\* USDJPY fetch lambda_handler, from start to end
FetchJ ==
    /\ dep = "USDJPY"
    /\ nfetch < MaxNewFetch
    /\ \E api \in ApiResponses(dep), key \in Clock :
          \E a \in {FetchStepUSDJPY(IdleFetch, ticks, cache, api, key)} :
             IF a.fet.pc = "failed"
             THEN fet' = [fet EXCEPT ![1] = a.fet] /\ UNCHANGED <<ticks, cache>>
             ELSE \E b \in {FetchStepUSDJPY(a.fet, a.ticks, a.cache, api, key)} :
                    \E c \in {FetchStepUSDJPY(b.fet, b.ticks, b.cache, api, key)} :
                       /\ fet' = [fet EXCEPT ![1] = c.fet]
                       /\ ticks' = c.ticks
                       /\ cache' = c.cache
    /\ nfetch' = nfetch + 1
    /\ inv' = [p \in Procs |-> Idle]
    /\ prev' = Idle
    /\ UNCHANGED <<dep, dash, sav, rates, state, trd, tbl, ever>>

NextFetch == FetchE \/ FetchJ \/ Analyze

SpecFetch == InitFetch /\ [][NextFetch]_vars

\* C21: if the API key cannot be read or one of DB_HOST, DB_NAME, DB_USER,
\* DB_PASSWORD is not set, the EURUSD fetch handler returns statusCode 500
\* and has made neither the request to the rates API nor an INSERT; when the
\* API answers with another status than 200 or without a rate it returns
\* statusCode 500 too and makes no INSERT.  An invocation that returns 500
\* leaves the rates table as it was.
C21_FetchFailsClosed ==
    /\ [](dep = "EURUSD" /\ fet[1].pc = "done" =>
            /\ (fet[1].ssm # "ok" \/ fet[1].missing # {}) =>
                  /\ fet[1].status = 500
                  /\ ~fet[1].requested
                  /\ ~fet[1].inserted
            /\ (fet[1].requested /\ (fet[1].api.status # 200 \/ fet[1].api.rate = NULL)) =>
                  /\ fet[1].status = 500
                  /\ ~fet[1].inserted)
    /\ [][(dep = "EURUSD" /\ nfetch' # nfetch /\ fet[1]'.status = 500) => rates' = rates]_vars

\* the handler has failed for a database variable that is not set, next to a
\* rates table that holds rows
C21_Witness ==
    /\ dep = "EURUSD"
    /\ rates # <<>>
    /\ fet[1].pc = "done"
    /\ fet[1].status = 500
    /\ fet[1].ssm = "ok"
    /\ fet[1].missing = {"DB_PASSWORD"}

----------------------------------------------------------------------------
(* Store failures: one analyzer invocation at a time, every store call a   *)
(* step of its own, and any store call of it may fail                      *)

\* a store call may fail only while a strategy has fewer trade records than
\* this: every crash between the two writes of a close lets the next run
\* write the trade record once more
MaxLedger == 2

Fail_UndoesOpens ==
    /\ Running(inv[1])
    /\ \A s \in StrategyNames : Len(trd[s]) < MaxLedger
    /\ inv' = [inv EXCEPT ![1] = [@ EXCEPT !.pc = "done",
                                            !.status = IF dep = "EURUSD" THEN 500 ELSE 0]]
    /\ state' = [s \in StrategyNames |-> IF inv[1].obs[s].opened # <<>> THEN <<>> ELSE state[s]]
    /\ tbl' = [s \in StrategyNames |->
                 SelectSeq(tbl[s], LAMBDA r : \A j \in 1..Len(inv[1].obs[s].opened) :
                                                  r # inv[1].obs[s].opened[j])]
    /\ UNCHANGED <<dep, dash, sav, fet, rates, ticks, cache, trd, prev, nfetch, ever>>

\* the store call the invocation is about to make raises: the exception leaves
\* strategy() and the handler (USDJPY: the invocation ends without a result;
\* EURUSD: the handler's except returns statusCode 500); the connection is in
\* autocommit mode, so there is nothing to roll back
Fail ==
    /\ Running(inv[1])
    /\ \A s \in StrategyNames : Len(trd[s]) < MaxLedger
    /\ inv' = [inv EXCEPT ![1] = [@ EXCEPT !.pc = "done",
                                            !.status = IF dep = "EURUSD" THEN 500 ELSE 0]]
    /\ UNCHANGED <<dep, dash, sav, fet, rates, ticks, cache, state, trd, tbl, prev, nfetch, ever>>

NextFail == FetchC \/ Start(1) \/ StepC(1) \/ Fail

SpecFail == InitConc /\ [][NextFail]_vars

\* the invocation stopped at a store call that failed
Failed == inv[1].pc = "done" /\ inv[1].k > 0

\* C22: whenever an evaluation stops between the store writes of a close, the
\* position is never gone from its slot without a ClosedTrade for it: every
\* position ever written is still in its slot or has a trade record.
C22_NoCloseWithoutTrade ==
    \A s \in StrategyNames : \A P \in ever[s] :
        ~InSlot(P, s) => TradesOf(P, s) >= 1

\* USDJPY: the evaluation stopped after the trade record of a close was
\* written and before the slot was emptied
C22_Witness ==
    /\ dep = "USDJPY"
    /\ Failed
    /\ \E s \in StrategyNames :
          /\ inv[1].obs[s].closed # <<>>
          /\ state[s] = inv[1].obs[s].pre
          /\ state[s] # <<>>
          /\ TradesOf(PosKey(state[s][1]), s) >= 1

\* C23: a store call that fails ends the evaluation at that step: the step
\* leaves the store as it is, with every write the invocation has made before,
\* and nothing is written afterwards until another invocation is started;
\* the failed step is not tried again.
C23_FailureKeepsWrites ==
    /\ [][(Running(inv[1]) /\ inv'[1].pc = "done" /\ inv'[1].status # 200) =>
             /\ UNCHANGED <<state, trd, tbl>>
             /\ inv'[1].obs = inv[1].obs
             /\ \A s \in StrategyNames :
                   \A j \in 1..Len(inv[1].obs[s].opened) : InSlot(PosKey(inv[1].obs[s].opened[j]), s)]_vars
    /\ [][~Running(inv[1]) => UNCHANGED <<state, trd, tbl>>]_vars

\* the evaluation stopped at a store call of the second strategy, and the
\* position the first strategy had opened before is in the store
C23_Witness ==
    /\ Failed
    /\ inv[1].status # 200
    /\ inv[1].k = 2
    /\ inv[1].obs["classic"].opened # <<>>
    /\ InSlot(PosKey(inv[1].obs["classic"].opened[1]), "classic")

\* C24: the ledger of every strategy only grows: a later evaluation removes
\* no closed trade and changes no field of one.
C24_LedgerAppendOnly ==
    [][\A s \in StrategyNames :
          /\ Len(Ledger(s)') >= Len(Ledger(s))
          /\ \A j \in 1..Len(Ledger(s)) :
                \E k \in 1..Len(Ledger(s)') : Ledger(s)'[k] = Ledger(s)[j]]_vars

\* an evaluation has closed a second trade of a strategy on a later sample
\* than the one its first trade was closed on
C24_Witness ==
    /\ Evaluated
    /\ \E s \in StrategyNames :
          /\ Len(Ledger(s)) >= 2
          /\ inv[1].obs[s].closed # <<>>
          /\ \E j \in 1..Len(Ledger(s)) : Ledger(s)[j].close_time < inv[1].time

\* C25: for each strategy the long and the short entry predicate an
\* evaluation works with are never both true: rsi < 30 and rsi > 70; the two
\* z-score tests (with the RSI filters in EURUSD); fractal low with the price
\* above the SMA and fractal high with the price below it, also when the
\* window is flagged as a high and as a low at once.
C25_EntriesExclusive ==
    (Evaluated /\ inv[1].order # <<>>) =>
        \A s \in StrategyNames : ~(inv[1].sig[s].long_c /\ inv[1].sig[s].short_c)

\* USDJPY: the window is flagged as a fractal high and as a fractal low, the
\* price is not at the SMA, and the fractal strategy got one entry signal
C25_Witness ==
    /\ dep = "USDJPY"
    /\ Evaluated
    /\ inv[1].order = Strategies
    /\ is_hi_usdjpy(Window) /\ is_lo_usdjpy(Window)
    /\ inv[1].sig["fractal"].long_c \/ inv[1].sig["fractal"].short_c

----------------------------------------------------------------------------
(* The windows of SpecInd, with every store call of the analyzer a step *)

NextIndSteps == FetchI \/ Start(1) \/ StepC(1)

SpecIndSteps == InitInd /\ [][NextIndSteps]_vars

\* C26: the strategies have isolated state: a step changes the position and
\* the trades of a strategy only if it is a store call of the evaluation of
\* that strategy; the position and the trades of the two others stay as they are.
C26_StrategiesIsolated ==
    [][\A s \in StrategyNames :
          (state'[s] # state[s] \/ trd'[s] # trd[s] \/ tbl'[s] # tbl[s]) =>
              /\ Running(inv[1])
              /\ inv[1].k > 0
              /\ Strategies[inv[1].k] = s]_vars

\* the fractal strategy has opened a position while the classic strategy,
\* evaluated before it in the same invocation, holds an open position too
C26_Witness ==
    /\ inv[1].obs["fractal"].opened # <<>>
    /\ OpenPositions("fractal") # <<>>
    /\ OpenPositions("classic") # <<>>
    /\ inv[1].obs["classic"].called

----------------------------------------------------------------------------
(* USDJPY: fetch invocations that overlap, every store call a step of its  *)
(* own, and the analyzer started by the S3 event of a tick object          *)

MaxNewRace == 2

InitRace ==
    /\ Init
    /\ dep = "USDJPY"
    /\ NSamples \in {0, RSI_LEN}

\* a fetch invocation starts in slot q, the lowest slot that is free, and
\* writes its tick object; the API fails or answers with a rate above Base
FStart(q) ==
    /\ fet[q].pc \in {"idle", "done", "failed"}
    /\ \A q2 \in FProcs : q2 < q => fet[q2].pc \in {"get_cache", "put_cache"}
    /\ nfetch < MaxNewRace
    /\ \E api \in {a \in ApiResponses(dep) : a.status # 200 \/ a.rate = Base(dep) + PipUnits * TP1},
          key \in Clock :
          \E a \in {FetchStepUSDJPY(IdleFetch, ticks, cache, api, key)} :
             /\ fet' = [fet EXCEPT ![q] = a.fet]
             /\ ticks' = a.ticks
    /\ nfetch' = nfetch + 1
    /\ inv' = [p \in Procs |-> Idle]
    /\ prev' = Idle
    /\ UNCHANGED <<dep, dash, sav, rates, cache, state, trd, tbl, ever>>

\* the fetch invocation in slot q reads, or writes, cache.json
FStep(q) ==
    /\ fet[q].pc \in {"get_cache", "put_cache"}
    /\ \E a \in {FetchStepUSDJPY(fet[q], ticks, cache, fet[q].api, fet[q].key)} :
          /\ fet' = [fet EXCEPT ![q] = a.fet]
          /\ cache' = a.cache
    /\ inv' = [p \in Procs |-> Idle]
    /\ prev' = Idle
    /\ UNCHANGED <<dep, dash, sav, rates, ticks, state, trd, tbl, nfetch, ever>>

NextRace == (\E q \in FProcs : FStart(q) \/ FStep(q)) \/ Analyze

SpecRace == InitRace /\ [][NextRace]_vars

\* C27: whenever the USDJPY analyzer evaluates the tick named by raw_key, the
\* newest element of the window it computes the indicators from is the rate of
\* that tick, however the steps of the fetch handler and the analyzer interleave.
C27_WindowIsCurrent ==
    (Evaluated /\ inv[1].order # <<>>) => inv[1].price = Window[Len(Window)]

\* C28: every tick object written is listed in cache.json once the fetch
\* invocation that wrote it has returned (unless it is older than the 500
\* newest ticks), also when fetch invocations overlap.
C28_WrittenTickIsCached ==
    \A k \in DOMAIN ticks :
        (/\ k > Len(ticks) - CACHE_MAX
         /\ \A q \in FProcs : fet[q].pc \in {"get_cache", "put_cache"} => fet[q].key # k) =>
            \E j \in 1..Len(cache) : cache[j] = k

\* C29: after any sequence of USDJPY fetch invocations cache.json holds at
\* most 500 keys, no key twice, the newest first; a fetch that writes a key
\* not yet cached leaves that key at index 0, and a fetch whose key is
\* already cached leaves cache.json unchanged.
C29_CacheShape ==
    /\ [](dep = "USDJPY" =>
            /\ Len(cache) <= CACHE_MAX
            /\ \A j \in 1..(Len(cache) - 1) : cache[j] > cache[j + 1])
    /\ [][(dep = "USDJPY" /\ nfetch' # nfetch /\ fet'[1].pc = "done") =>
             IF \E j \in 1..Len(cache) : cache[j] = fet'[1].key
             THEN cache' = cache
             ELSE cache' # <<>> /\ cache'[1] = fet'[1].key]_vars

\* a fetch has put a new key in front of a full cache.json: the oldest key
\* is gone and the cache holds 500 keys
C29_Witness ==
    /\ dep = "USDJPY"
    /\ fet[1].pc = "done"
    /\ Len(ticks) = CACHE_MAX + 1
    /\ Len(cache) = CACHE_MAX
    /\ cache[1] = fet[1].key
    /\ cache[CACHE_MAX] = 2

\* C30: in a sequence of evaluations that do not overlap, for every strategy
\* the number of positions ever opened is the number of its ClosedTrades plus
\* the number of its open positions, which is 0 or 1.
C30_OpenedBalance ==
    \A s \in StrategyNames :
        /\ Cardinality(ever[s]) = Len(Ledger(s)) + Len(OpenPositions(s))
        /\ Len(OpenPositions(s)) <= 1

\* a strategy has a closed trade and an open position: two positions opened
C30_Witness ==
    \E s \in StrategyNames :
        /\ Len(Ledger(s)) >= 1
        /\ Len(OpenPositions(s)) = 1
        /\ Cardinality(ever[s]) >= 2

\* C31: every ClosedTrade has result_pips equal to exactly +TP or exactly -SL
\* of its strategy (30 / -20 classic, 25 / -15 anomaly, 24 / -12 fractal),
\* in both directions and whatever the closing price.
C31_ResultIsTpOrSl ==
    \A s \in StrategyNames :
      \A j \in 1..Len(Ledger(s)) :
        Ledger(s)[j].result_pips \in {10 * TP(s), -(10 * SL(s))}

\* a trade opened at a price between two rounding steps was closed by a price
\* beyond its level
C31_Witness ==
    \E s \in StrategyNames : \E j \in 1..Len(Ledger(s)) :
        LET T == Ledger(s)[j]
        IN  /\ ~OnGrid(T.open_price)
            /\ T.close_price # T.tp_price
            /\ T.close_price # T.sl_price

\* C32: for every position the evaluator has created there is no price at
\* which hit_tp and hit_sl are both true (the two levels are more than 2 eps
\* apart, the TP on the profit side), and no trade was closed by such a price.
C32_NeverBothHit ==
    \A s \in StrategyNames :
        /\ \A P \in ever[s] :
              /\ Sign(P.direction) * (P.tp_price - P.sl_price) > 2 * EpsUnits(dep)
              /\ \A x \in {P.sl_price - EpsUnits(dep), P.sl_price, P.sl_price + EpsUnits(dep),
                           P.open_price,
                           P.tp_price - EpsUnits(dep), P.tp_price, P.tp_price + EpsUnits(dep)} :
                    ~BothHit(P, x)
        /\ \A j \in 1..Len(Ledger(s)) : ~BothHit(Ledger(s)[j], Ledger(s)[j].close_price)

\* positions of both directions were created, and a trade was closed by a
\* price just inside the eps band of its TP
C32_Witness ==
    /\ \E s \in StrategyNames : \E P \in ever[s] : P.direction = "SHORT"
    /\ \E s \in StrategyNames : \E j \in 1..Len(Ledger(s)) :
          LET T == Ledger(s)[j]
          IN  T.direction = "LONG" /\ T.close_price = T.tp_price - EpsUnits(dep)

\* C33: a position is never closed by the sample that opened it: the price at
\* which a position was opened satisfies neither hit_tp nor hit_sl for it, no
\* invocation closes a position it has opened itself, and every ClosedTrade
\* has close_time >= open_time and was closed by a sample other than the one
\* that opened it.
C33_NotClosedByOpeningSample ==
    \A s \in StrategyNames :
        /\ \A P \in ever[s] :
              ~hit_tp(dep, P, P.open_price) /\ ~hit_sl(dep, P, P.open_price)
        /\ \A p \in Procs : \A j \in 1..Len(inv[p].obs[s].closed) :
              \A k \in 1..Len(inv[p].obs[s].opened) :
                  PosKey(inv[p].obs[s].closed[j]) # PosKey(inv[p].obs[s].opened[k])
        /\ \A j \in 1..Len(Ledger(s)) :
              /\ Ledger(s)[j].close_time >= Ledger(s)[j].open_time
              /\ Ledger(s)[j].close_time # Ledger(s)[j].open_time

\* the newest sample was evaluated a second time, the position opened by its
\* first evaluation is still open, and an earlier position has been closed
C33_Witness ==
    /\ Rerun
    /\ \E s \in StrategyNames :
          /\ prev.obs[s].opened # <<>>
          /\ \A j \in 1..Len(prev.obs[s].opened) : InSlot(PosKey(prev.obs[s].opened[j]), s)
    /\ \E s \in StrategyNames : Len(Ledger(s)) > 0

\* C34: USDJPY: when a close has stopped after the trade record was written and
\* before the slot was emptied, later evaluations leave exactly one
\* ClosedTrade for that position: a position that is gone from its slot has
\* one trade record, not two.
C34_OneTradeAfterFailedClose ==
    dep = "USDJPY" =>
        \A s \in StrategyNames : \A P \in ever[s] :
            ~InSlot(P, s) => TradesOf(P, s) = 1

-----------------------------------------------------------------------------
(* The USDJPY dashboard handler in one container, next to the fetch handler *)

InitDash == Init /\ dep = "USDJPY"

\* one invocation of the dashboard lambda_handler
Dashboard ==
    /\ \E outcome \in {"ok", "raise_before_put", "raise_second_put"} : dash' = dashboard_handler(dash, ticks, outcome)
    /\ UNCHANGED <<dep, sav, fet, rates, ticks, cache, state, trd, tbl, inv, prev, nfetch, ever>>

\* the container is replaced: the module is imported again, _last_ts = None;
\* the pages in the bucket stay
DashColdStart ==
    /\ dash.status # 0
    /\ dash' = [NoDash EXCEPT !.main = dash.main, !.chart = dash.chart]
    /\ UNCHANGED <<dep, sav, fet, rates, ticks, cache, state, trd, tbl, inv, prev, nfetch, ever>>

NextDash == Fetch \/ Dashboard \/ DashColdStart

SpecDash == InitDash /\ [][NextDash]_vars

\* C35: the dashboard handler answers 204 only if this container has already
\* written, completely, a dashboard for the tick that is the newest now; an
\* invocation that recorded the newest tick's timestamp and then failed does
\* not make the next invocation skip the regeneration.
C35_NotModifiedOnlyAfterWrite ==
    dash.status = 204 => dash.latest # NULL /\ dash.written = dash.latest

-----------------------------------------------------------------------------
(* The USDJPY save handler in one container, next to the fetch handler *)

\* one invocation of the save lambda_handler, up to its return; the event is
\* the S3 event of the newest tick, an event whose record has no object key,
\* or an event without records
Save ==
    /\ dep = "USDJPY"
    /\ sav.thread # "started"
    /\ \E event \in {[Records |-> <<[key |-> k]>>] :
                        k \in {j \in {Len(ticks)} : j >= 1} \cup {NoKey}}
                    \cup {[Records |-> <<>>]} :
          sav' = save_handler(sav, event)
    /\ UNCHANGED <<dep, dash, fet, rates, ticks, cache, state, trd, tbl, inv, prev, nfetch, ever>>

\* the thread started by the handler runs async_invoke
SaveThread ==
    /\ sav.thread = "started"
    /\ \E accepted \in BOOLEAN : sav' = async_invoke(sav, accepted)
    /\ UNCHANGED <<dep, dash, fet, rates, ticks, cache, state, trd, tbl, inv, prev, nfetch, ever>>

\* the container is replaced: the module is imported again and reads ANALYZE_LAMBDA
SaveColdStart ==
    /\ sav.thread # "started"
    /\ \E fn \in BOOLEAN : sav' = [NoSave EXCEPT !.ANALYZE_FN = fn]
    /\ sav' # sav
    /\ UNCHANGED <<dep, dash, fet, rates, ticks, cache, state, trd, tbl, inv, prev, nfetch, ever>>

NextSave == Fetch \/ Save \/ SaveThread \/ SaveColdStart

SpecSave == InitDash /\ [][NextSave]_vars

\* C36: once the handler has returned and its thread has ended, a well-formed
\* event has statusCode 202 and exactly one analyzer invocation, whose payload
\* raw_key is the event's object key; an event without
\* Records[0].s3.object.key has statusCode 500 and no invocation.
C36_OneInvocationPerEvent ==
    (sav.status # 0 /\ sav.thread # "started") =>
        IF WellFormed(sav.event)
        THEN /\ sav.status = 202
             /\ sav.invoked = <<[raw_key |-> sav.event.Records[1].key]>>
        ELSE /\ sav.status = 500
             /\ sav.invoked = <<>>

====
